---- MODULE Spec2Model ----
(***************************************************************************)
(* A model of ngts_explorer.py (Python 2): the period search               *)
(* (compute_power_series, PowerSeries.peak_period), the light-curve        *)
(* reader (extract_data, fetch_airmass), phase folding (plot_phase) and    *)
(* the NGTSExplorer session (set_object, nobjects, plot, plot_all,         *)
(* savefig) with the figure files it writes.                               *)
(*                                                                         *)
(* Optional values: None is <<>>, a present value v is <<v>>.              *)
(* Rational numbers (periods, phases) are records [num, den], den > 0.     *)
(***************************************************************************)
EXTENDS Integers, Sequences, FiniteSets, TLC

VARIABLES
    \* ---- the NGTSExplorer instance (src/ngts_explorer.py:175-183)
    mapping,    \* self.mapping: a defaultdict(list), class -> list of objects
    name,       \* self.name
    i,          \* self.i
    vmag,       \* self.vmag
    obclass,    \* self.obclass
    sdata,      \* self.data: None until the first successful extract_data
    \* ---- the environment of the session
    figs,       \* number of open matplotlib figures (plt.get_fignums())
    dirs,       \* directories that exist
    files,      \* files that exist: path -> number of times written
    last,       \* the last call of the session: its arguments and outcome
    \* ---- period search
    pargs,      \* arguments of the last find_period call
    ps,         \* its outcome: a PowerSeries or a failure
    peak,       \* outcome of the last peak_period evaluation on ps
    \* ---- light-curve reader and phase folding
    fitsfile,   \* the data file: imagelist and the selected object's rows
    headers,    \* the headers table: image_id -> airmass, or None
    fetched,    \* the last fetch_airmass call: its input and outcome
    data,       \* outcome of the last extract_data call
    plotted     \* what the last plot_phase on data handed to plot_with_title

explorerVars == <<mapping, name, i, vmag, obclass, sdata>>
envVars == <<figs, dirs, files, last>>
periodVars == <<pargs, ps, peak>>
readerVars == <<fitsfile, headers, fetched, data, plotted>>
vars == <<explorerVars, envVars, periodVars, readerVars>>

None == <<>>
Some(v) == <<v>>

Range(s) == {s[k] : k \in DOMAIN s}

(***************************************************************************)
(* Bounds of the model.                                                    *)
(***************************************************************************)
MaxN == 2           \* largest number n of candidate periods
MaxPeriodArg == 2   \* largest min_period / max_period argument

PeriodArgs == (0 - 1)..MaxPeriodArg
\* a power value: a finite number, or None standing for NaN
PowerOut == {Some(0), Some(1), None}

(***************************************************************************)
(* Rational arithmetic.                                                    *)
(***************************************************************************)
Rat(n, d) == [num |-> n, den |-> d]
RatPositive(r) == r.num > 0
RatLess(a, b) == a.num * b.den < b.num * a.den

(***************************************************************************)
(* np.linspace(start, stop, num): num evenly spaced samples, the first     *)
(* start and (for num > 1) the last stop; [start] for num = 1; empty for   *)
(* num = 0.                                                                *)
(***************************************************************************)
Linspace(start, stop, num) ==
    IF num = 0 THEN <<>>
    ELSE IF num = 1 THEN <<Rat(start, 1)>>
    ELSE [k \in 1..num |->
            Rat(start * (num - 1) + (k - 1) * (stop - start), num - 1)]

\* a weaker check, which lets a period of zero pass
AllPositiveBug(periods) == \A k \in DOMAIN periods : periods[k].num >= 0
\* the assertion of compute_power_series: (periods > 0).all()
AllPositive(periods) == \A k \in DOMAIN periods : RatPositive(periods[k])

Failure(status) == [status |-> status, period |-> <<>>, power |-> <<>>]
PowerSeries(periods, power) ==
    [status |-> "ok", period |-> periods, power |-> power]

(***************************************************************************)
(* PowerSeries.peak_period:                                                *)
(*   self.period[self.power == self.power.max()][0]                        *)
(* max() of an empty array raises ValueError; max() of an array holding a  *)
(* NaN is NaN, the mask is then all False and [0] raises IndexError.       *)
(***************************************************************************)
MaxOf(S) == CHOOSE x \in S : \A y \in S : y <= x
PowerMax(power) == MaxOf({power[k][1] : k \in DOMAIN power})
\* the same periods in reverse index order
MaskedBug(s) ==
    LET m == PowerMax(s.power)
        idx == {k \in DOMAIN s.power : s.power[k] = Some(m)}
    IN  [k \in 1..Cardinality(idx) |->
            s.period[CHOOSE j \in idx :
                        Cardinality({l \in idx : l > j}) = k - 1]]
\* self.period[self.power == self.power.max()]: the periods at the indices
\* of maximal power, in index order
Masked(s) ==
    LET m == PowerMax(s.power)
        idx == {k \in DOMAIN s.power : s.power[k] = Some(m)}
    IN  [k \in 1..Cardinality(idx) |->
            s.period[CHOOSE j \in idx :
                        Cardinality({l \in idx : l < j}) = k - 1]]
PeakPeriod(s) ==
    IF Len(s.power) = 0 THEN [status |-> "ValueError", value |-> None]
    ELSE IF \E k \in DOMAIN s.power : s.power[k] = None
         THEN [status |-> "IndexError", value |-> None]
    ELSE [status |-> "ok", value |-> Some(Masked(s)[1])]

(***************************************************************************)
(* The light-curve reader.  Times are counted in half days, so that the    *)
(* JD - MJD offset 2400000.5 of plot_phase is a whole number.              *)
(***************************************************************************)
MaxImages == 2      \* largest number of images in the data file
MaxIds == 3         \* longest list of identifiers given to fetch_airmass

ImageIds == {1, 2}
Rows == {1, 2}                 \* the objects (rows of the flux image)
TmidVals == {112001, 112002}   \* MJD 56000.5 and 56001.0, in half days
AirmassVals == {1, 2}
JDOffset == 4800001            \* 2400000.5 days, in half days
FoldPeriods == {2}             \* periods of plot_phase, in half days
FoldEpochs == {0, 112001}      \* epochs given as MJD, in half days

\* the flux and flux error of row r, column j: distinct in every cell, so
\* that a value's place in the file can be read off the value
FluxCell(r, j) == 1000 * r + 100 + j
FluxErrCell(r, j) == 1000 * r + 200 + j

FitsFiles ==
    { [image_id |-> ids, tmid |-> t,
       flux |-> [r \in Rows |-> [j \in 1..n |-> FluxCell(r, j)]],
       fluxerr |-> [r \in Rows |-> [j \in 1..n |-> FluxErrCell(r, j)]]] :
      <<n, ids, t>> \in UNION { {n} \X [1..n -> ImageIds] \X [1..n -> TmidVals] :
                                n \in 0..MaxImages } }

\* image_id is the key of the headers table: one row per image at most
HeaderTables == [ImageIds -> {None} \cup {Some(a) : a \in AirmassVals}]

\* the permutations of 1..n, for every length an array of the file can have
PermsOfLen ==
    [n \in 0..MaxImages |->
        {p \in [1..n -> 1..n] : \A a, b \in 1..n : p[a] = p[b] => a = b}]
Perms(n) == PermsOfLen[n]

\* np.argsort(keys): an index array that sorts keys.  The default sort is
\* not stable, so equal keys may come out in either order.
ArgSorts(keys) ==
    {p \in Perms(Len(keys)) :
        \A a, b \in 1..Len(keys) : a < b => keys[p[a]] <= keys[p[b]]}

\* data[ind]: numpy indexing of an array by an index array
Take(s, ind) == [k \in DOMAIN ind |-> s[ind[k]]]

\* long(x) of an integer image identifier is that integer
Long(x) == x

(***************************************************************************)
(* fetch_airmass(image_ids): the outcomes the call can have on table hdr.  *)
(* The SELECT returns the rows whose image_id is in the list; the result   *)
(* is [airmass_mapping[i] for i in image_ids], a KeyError when an          *)
(* identifier has no row.  What the database answers to an empty IN list   *)
(* is not decided by this code: it may return no rows or reject the query. *)
(***************************************************************************)
AirmassMapping(hdr, image_ids) ==
    [id \in {x \in Range(image_ids) : hdr[x] # None} |-> hdr[id][1]]
\* a lookup that skips the identifiers without a row
LookupAllBug(hdr, image_ids) ==
    LET m == AirmassMapping(hdr, image_ids)
        found == SelectSeq(image_ids, LAMBDA x : x \in DOMAIN m)
    IN  [status |-> "ok", value |-> [k \in DOMAIN found |-> m[found[k]]]]
LookupAll(hdr, image_ids) ==
    LET m == AirmassMapping(hdr, image_ids)
    IN  IF \E k \in DOMAIN image_ids : image_ids[k] \notin DOMAIN m
        THEN [status |-> "KeyError", value |-> <<>>]
        ELSE [status |-> "ok",
              value |-> [k \in DOMAIN image_ids |-> m[image_ids[k]]]]
FetchAirmass(hdr, ids) ==
    LET image_ids == [k \in DOMAIN ids |-> Long(ids[k])]
    IN  IF Len(image_ids) = 0
        THEN {LookupAll(hdr, image_ids),
              [status |-> "ProgrammingError", value |-> <<>>]}
        ELSE {LookupAll(hdr, image_ids)}

(***************************************************************************)
(* extract_data(fname, index): the FileData it can return for row index    *)
(* (1-based) of file f, or the failure of the airmass lookup.              *)
(***************************************************************************)
DataFailure(status) ==
    [status |-> status, mjd |-> <<>>, flux |-> <<>>, fluxerr |-> <<>>,
     airmass |-> <<>>]
FileData(mjd, flux, fluxerr, airmass) ==
    [status |-> "ok", mjd |-> mjd, flux |-> flux, fluxerr |-> fluxerr,
     airmass |-> airmass]

\* the identifiers in file order, as before the sort
AirmassIdsBug(image_id, ind) == image_id
\* the identifiers handed to fetch_airmass: image_id[ind]
AirmassIds(image_id, ind) == Take(image_id, ind)

ExtractData(f, hdr, index) ==
    LET file_index == index - 1
        flux == f.flux[file_index + 1]
        fluxerr == f.fluxerr[file_index + 1]
    IN  UNION {
          { IF am.status = "ok"
            THEN FileData(Take(f.tmid, ind), Take(flux, ind),
                          Take(fluxerr, ind), am.value)
            ELSE DataFailure(am.status) :
            am \in FetchAirmass(hdr, AirmassIds(f.image_id, ind)) } :
          ind \in ArgSorts(f.tmid) }

(***************************************************************************)
(* NGTSExplorer.plot_phase: the FileData it hands to plot_with_title.      *)
(***************************************************************************)
\* ((mjd - epoch) / period) % 1
Phase(mjd, epoch, period) == Rat((mjd - epoch) % period, period)
RatPlusOne(r) == Rat(r.num + r.den, r.den)

Folded(d, phase, ind) ==
    FileData(Take(phase, ind), Take(d.flux, ind), Take(d.fluxerr, ind),
             Take(d.airmass, ind))
Doubled(nd) ==
    FileData(nd.mjd \o [k \in DOMAIN nd.mjd |-> RatPlusOne(nd.mjd[k])],
             nd.flux \o nd.flux, nd.fluxerr \o nd.fluxerr,
             nd.airmass \o nd.airmass)
PlotPhaseData(d, period, epoch0, mjdflag, double_plot) ==
    LET epoch == IF ~mjdflag THEN epoch0 - JDOffset ELSE epoch0
        phase == [k \in DOMAIN d.mjd |-> Phase(d.mjd[k], epoch, period)]
        \* the phases share the denominator period: their order is that of
        \* their numerators
        keys == [k \in DOMAIN phase |-> phase[k].num]
    IN  { IF double_plot THEN Doubled(Folded(d, phase, ind))
          ELSE Folded(d, phase, ind) :
          ind \in ArgSorts(keys) }

(***************************************************************************)
(* The NGTSExplorer session.                                               *)
(***************************************************************************)
MaxWrites == 2      \* a file is written at most this many times

\* The rows of the crossmatch catalogue, MAIN_ID and OTYPE as strip()
\* leaves them; V is None where the file holds NaN.
CatalogueRows ==
    << [MAIN_ID |-> "V1", OTYPE |-> "EB", V |-> Some(12), Sequence_number |-> 1],
       [MAIN_ID |-> "R1", OTYPE |-> "RR", V |-> Some(0), Sequence_number |-> 3],
       [MAIN_ID |-> "V2", OTYPE |-> "EB", V |-> None, Sequence_number |-> 2] >>

\* build_object_type_mapping: class -> its (obj_id, sequence number, vmag)
\* tuples in catalogue order.  Classes are optional strings: None is a key
\* a defaultdict accepts like any other.
BuildObjectTypeMapping(rows) ==
    [c \in {Some(rows[k].OTYPE) : k \in DOMAIN rows} |->
        LET mine == SelectSeq(rows, LAMBDA r : Some(r.OTYPE) = c)
        IN  [k \in DOMAIN mine |->
                <<mine[k].MAIN_ID, Long(mine[k].Sequence_number), mine[k].V>>]]

Catalogue == BuildObjectTypeMapping(CatalogueRows)

\* class arguments a caller gives: two classes of the catalogue, one that
\* is not in it, and None (the default of nobjects)
ClassArgs == {Some("EB"), Some("RR"), Some("Mira"), None}
IndexArgs == (0 - 1)..2
OutDirs == {"objects"}

\* self.mapping[obclass] on a defaultdict(list): a missing key is inserted
\* with an empty list
Touch(m, c) == IF c \in DOMAIN m THEN m ELSE [k \in DOMAIN m \cup {c} |->
                                               IF k = c THEN <<>> ELSE m[k]]

\* lst[index] of a Python list: negative indices count from the end
ValidIndex(lst, index) == index >= 0 - Len(lst) /\ index < Len(lst)
Item(lst, index) == IF index >= 0 THEN lst[index + 1]
                    ELSE lst[Len(lst) + index + 1]

\* truth value of an optional string / an optional number
TruthyStr(v) == v # None /\ v[1] # ""
TruthyNum(v) == v # None /\ v[1] # 0

Self == [mapping |-> mapping, name |-> name, i |-> i, vmag |-> vmag,
         obclass |-> obclass, sdata |-> sdata]

(***************************************************************************)
(* set_object(obclass, index) on the instance self; extractOk says whether *)
(* extract_data returns (the file is read and every airmass is found).     *)
(* The result is the instance afterwards and the call's status.            *)
(***************************************************************************)
SetObject(self, c, index, extractOk) ==
    LET m == Touch(self.mapping, c)
        touched == [self EXCEPT !.mapping = m]
    IN  IF ~ValidIndex(m[c], index)
        THEN [self |-> touched, status |-> "IndexError"]
        ELSE LET t == Item(m[c], index)
                 selected == [touched EXCEPT !.name = Some(t[1]),
                                             !.i = Some(t[2]),
                                             !.vmag = t[3],
                                             !.obclass = c]
             IN  IF ~extractOk
                 THEN [self |-> selected, status |-> "ExtractError"]
                 ELSE [self |-> [selected EXCEPT !.sdata = Some(t[2])],
                       status |-> "ok"]

\* nobjects(obclass=None): the class looked up, and the count returned
NObjectsClass(self, c) == IF TruthyStr(c) THEN c ELSE self.obclass

\* plot_with_title: the title drawn, None when there is none
Title(self) ==
    IF TruthyStr(self.name) /\ TruthyStr(self.obclass)
    THEN IF TruthyNum(self.vmag)
         THEN Some(<<self.name[1], self.obclass[1], self.vmag>>)
         ELSE Some(<<self.name[1], self.obclass[1], None>>)
    ELSE None

(***************************************************************************)
(* plot_all: iterations k..n-1 of the loop; the iteration failAt (if any)  *)
(* fails in extract_data and ends the loop.  Each completed iteration      *)
(* draws into the current figure, opening one if there is none, and then   *)
(* closes it.                                                              *)
(***************************************************************************)
RECURSIVE PlotAllFrom(_, _, _, _, _, _)
PlotAllFrom(self, nfigs, c, k, n, failAt) ==
    IF k >= n THEN [self |-> self, figs |-> nfigs, status |-> "ok"]
    ELSE LET r == SetObject(self, c, k, k # failAt)
         IN  IF r.status # "ok"
             THEN [self |-> r.self, figs |-> nfigs, status |-> r.status]
             ELSE PlotAllFrom(r.self, (IF nfigs = 0 THEN 1 ELSE nfigs) - 1,
                              c, k + 1, n, failAt)

(***************************************************************************)
(* yes_or_no: result.lower().strip() in ['y', 'ye', 'yes'].  A string is   *)
(* the sequence of its characters.                                         *)
(***************************************************************************)
LowerChar(ch) ==
    CASE ch = "Y" -> "y" [] ch = "E" -> "e" [] ch = "S" -> "s"
      [] ch = "N" -> "n" [] OTHER -> ch
Lower(str) == [k \in DOMAIN str |-> LowerChar(str[k])]
IsSpace(ch) == ch \in {" ", "\t", "\n"}
RECURSIVE LStrip(_)
LStrip(str) == IF str # <<>> /\ IsSpace(Head(str)) THEN LStrip(Tail(str))
               ELSE str
RECURSIVE RStrip(_)
RStrip(str) == IF str # <<>> /\ IsSpace(str[Len(str)])
               THEN RStrip(SubSeq(str, 1, Len(str) - 1))
               ELSE str
Strip(str) == RStrip(LStrip(str))
\* a laxer test, which takes any reply that starts with y
YesOrNoBug(result) ==
    LET t == Strip(Lower(result)) IN t # <<>> /\ t[1] = "y"
YesOrNo(result) ==
    Strip(Lower(result)) \in {<<"y">>, <<"y", "e">>, <<"y", "e", "s">>}

Answers ==
    { <<>>, <<"y">>, <<"Y", "E">>, <<" ", "Y", "e", "s", "\n">>, <<"n">>,
      <<"y", "e", "s", "s">> }

\* os.path.join(outdir, ob_class) and os.path.join(.., '{name}.png'), for
\* names that are single path components: a path is the sequence of its
\* components
DirPath(outdir, c) == <<outdir, c>>
FilePath(outdir, c, n) == <<outdir, c, n \o ".png">>

Call(op, status) ==
    [op |-> op, status |-> status, cls |-> None, index |-> 0,
     count |-> None, keys |-> {}, title |-> None, path |-> <<>>,
     prompted |-> FALSE, answer |-> <<>>]

(***************************************************************************)
(* The session's calls.                                                    *)
(***************************************************************************)
SetSelf(self) ==
    /\ mapping' = self.mapping
    /\ name' = self.name
    /\ i' = self.i
    /\ vmag' = self.vmag
    /\ obclass' = self.obclass
    /\ sdata' = self.sdata

Keys ==
    /\ last' = [Call("keys", "ok") EXCEPT !.keys = DOMAIN mapping]
    /\ UNCHANGED <<explorerVars, figs, dirs, files, periodVars, readerVars>>

DoSetObject ==
    \E c \in ClassArgs, index \in IndexArgs :
        \E r \in {SetObject(Self, c, index, extractOk) :
                    extractOk \in BOOLEAN} :
            /\ SetSelf(r.self)
            /\ last' = [Call("set_object", r.status) EXCEPT
                          !.cls = c, !.index = index,
                          !.count = IF r.status = "ok"
                                    THEN Some(Len(r.self.mapping[c]))
                                    ELSE None]
            /\ UNCHANGED <<figs, dirs, files, periodVars, readerVars>>

NObjects ==
    \E c \in ClassArgs :
        LET key == NObjectsClass(Self, c)
        IN  /\ mapping' = Touch(mapping, key)
            /\ last' = [Call("nobjects", "ok") EXCEPT
                          !.cls = c, !.count = Some(Len(mapping'[key]))]
            /\ UNCHANGED <<name, i, vmag, obclass, sdata, figs, dirs, files,
                           periodVars, readerVars>>

Plot ==
    /\ IF sdata = None
       THEN /\ last' = Call("plot", "AttributeError")
            /\ UNCHANGED figs
       ELSE /\ last' = [Call("plot", "ok") EXCEPT !.title = Title(Self)]
            /\ figs' = IF figs = 0 THEN 1 ELSE figs
    /\ UNCHANGED <<explorerVars, dirs, files, periodVars, readerVars>>

PlotAll ==
    \E c \in ClassArgs :
        LET m == Touch(mapping, c)
            nobjects == Len(m[c])
        IN  \E failAt \in 0..nobjects :
                \E r \in {PlotAllFrom([Self EXCEPT !.mapping = m], figs, c, 0,
                                      nobjects, failAt)} :
                    /\ SetSelf(r.self)
                    /\ figs' = r.figs
                    /\ last' = [Call("plot_all", r.status) EXCEPT
                                  !.cls = c, !.count = Some(nobjects)]
                    /\ UNCHANGED <<dirs, files, periodVars, readerVars>>

(***************************************************************************)
(* savefig(ob_name, ob_class, outdir), the module's function: the          *)
(* directory is made when missing; an existing file is written only when   *)
(* yes_or_no says so (the user is asked only then; answers are the         *)
(* replies that may be typed).  plt.savefig draws the current figure,      *)
(* opening one if there is none.                                           *)
(***************************************************************************)
\* whether plt.savefig is reached
Overwrite(exists, answer) == ~exists \/ YesOrNo(answer)

Savefig(op, ob_name, ob_class, outdir, answers) ==
    \E answer \in IF FilePath(outdir, ob_class, ob_name) \in DOMAIN files
                  THEN answers ELSE {<<>>} :
    LET full_out_path == DirPath(outdir, ob_class)
        out_filename == FilePath(outdir, ob_class, ob_name)
        exists == out_filename \in DOMAIN files
        writes == Overwrite(exists, answer)
    IN  /\ (exists /\ writes) => files[out_filename] < MaxWrites
        /\ dirs' = dirs \cup {<<outdir>>, full_out_path}
        /\ files' = IF writes
                    THEN [q \in DOMAIN files \cup {out_filename} |->
                            IF q = out_filename
                            THEN (IF exists THEN files[q] + 1 ELSE 1)
                            ELSE files[q]]
                    ELSE files
        /\ figs' = IF writes /\ figs = 0 THEN 1 ELSE figs
        /\ last' = [Call(op, "ok") EXCEPT
                      !.path = out_filename, !.prompted = exists,
                      !.answer = IF exists THEN answer ELSE <<>>]

SavefigIndex ==
    \E ob_name \in {"V1"}, ob_class \in {"EB"}, outdir \in OutDirs :
        /\ Savefig("savefig_index", ob_name, ob_class, outdir, Answers)
        /\ UNCHANGED <<explorerVars, periodVars, readerVars>>

\* no test for an open figure
HasFigureBug(nfigs) == TRUE
\* plt.get_fignums() is not empty
HasFigure(nfigs) == nfigs > 0

DoSavefig ==
    \E outdir \in OutDirs :
        /\ IF ~HasFigure(figs) \/ name = None \/ obclass = None
           THEN /\ last' = Call("savefig", "RuntimeError")
                /\ UNCHANGED <<figs, dirs, files>>
           ELSE Savefig("savefig", name[1], obclass[1], outdir, Answers)
        /\ UNCHANGED <<explorerVars, periodVars, readerVars>>

(***************************************************************************)
(* The period search: NGTSExplorer.find_period and peak_period.            *)
(***************************************************************************)
NotEvaluated == [status |-> "none", value |-> None]
NoArgs == [min |-> 0, max |-> 0, n |-> 0]

\* compute_power_series(data, min_period, max_period, n); power is what
\* signal.lombscargle returns for the n frequencies
ComputePowerSeries(min_period, max_period, n, power) ==
    LET periods == Linspace(min_period, max_period, n)
    IN  IF ~AllPositive(periods) THEN Failure("AssertionError")
        ELSE PowerSeries(periods, power)

FindPeriod ==
    \E min_period \in PeriodArgs, max_period \in PeriodArgs, n \in 0..MaxN,
       plot \in BOOLEAN :
        \E r \in IF sdata = None THEN {Failure("AttributeError")}
                 ELSE {ComputePowerSeries(min_period, max_period, n, power) :
                        power \in [1..n -> PowerOut]} :
            /\ ps' = r
            /\ pargs' = [min |-> min_period, max |-> max_period, n |-> n]
            /\ peak' = NotEvaluated
            \* plot_power_series draws into the current figure
            /\ figs' = IF r.status = "ok" /\ plot /\ figs = 0 THEN 1 ELSE figs
            /\ last' = Call("find_period", r.status)
            /\ UNCHANGED <<explorerVars, dirs, files, readerVars>>

EvalPeakPeriod ==
    /\ ps.status = "ok"
    /\ peak' = PeakPeriod(ps)
    /\ last' = Call("peak_period", peak'.status)
    /\ UNCHANGED <<explorerVars, figs, dirs, files, pargs, ps, readerVars>>

(***************************************************************************)
(* The reader's calls.                                                     *)
(***************************************************************************)
NoData == [index |-> 0, fd |-> DataFailure("none")]
NoPlot == [period |-> 1, epoch |-> 0, double_plot |-> FALSE,
           fd |-> DataFailure("none")]
NoFetch == [ids |-> <<>>, status |-> "none", value |-> <<>>]

IdLists == UNION {[1..n -> ImageIds] : n \in 0..MaxIds}

DoFetchAirmass ==
    \E ids \in IdLists :
        \E r \in FetchAirmass(headers, ids) :
            /\ fetched' = [ids |-> ids, status |-> r.status, value |-> r.value]
            /\ last' = Call("fetch_airmass", r.status)
            /\ UNCHANGED <<explorerVars, figs, dirs, files, periodVars,
                           fitsfile, headers, data, plotted>>

DoExtractData ==
    \E index \in Rows :
        \E d \in ExtractData(fitsfile, headers, index) :
            /\ data' = [index |-> index, fd |-> d]
            /\ plotted' = NoPlot
            /\ last' = [Call("extract_data", d.status) EXCEPT !.index = index]
            /\ UNCHANGED <<explorerVars, figs, dirs, files, periodVars,
                           fitsfile, headers, fetched>>

\* plot_phase on self.data = data.fd; a caller who passes mjd=False gives
\* the epoch as a Julian date.  detrend_data changes what plot_index draws
\* (magnitudes for fluxes), not the FileData handed to it.
DoPlotPhase ==
    \E period \in FoldPeriods, epoch \in FoldEpochs, mjdflag \in BOOLEAN,
       double_plot \in BOOLEAN :
        /\ IF data.fd.status # "ok"
           THEN /\ last' = Call("plot_phase", "AttributeError")
                /\ UNCHANGED <<figs, plotted>>
           ELSE \E nd \in PlotPhaseData(
                            data.fd, period,
                            IF mjdflag THEN epoch ELSE epoch + JDOffset,
                            mjdflag, double_plot) :
                    \* plot_index takes d.mjd.min(): a ValueError on no points
                    /\ plotted' = [period |-> period, epoch |-> epoch,
                                   double_plot |-> double_plot,
                                   fd |-> IF Len(nd.mjd) > 0 THEN nd
                                          ELSE DataFailure("ValueError")]
                    /\ figs' = IF Len(nd.mjd) > 0 /\ figs = 0 THEN 1 ELSE figs
                    /\ last' = Call("plot_phase",
                                    IF Len(nd.mjd) > 0 THEN "ok"
                                    ELSE "ValueError")
        /\ UNCHANGED <<explorerVars, dirs, files, periodVars, fitsfile,
                       headers, fetched, data>>

(***************************************************************************)
(* Initial states and specifications.                                      *)
(***************************************************************************)
\* NGTSExplorer.__init__
InitExplorer ==
    /\ mapping = BuildObjectTypeMapping(CatalogueRows)
    /\ name = None
    /\ i = None
    /\ obclass = None
    /\ vmag = None
    /\ sdata = None

InitEnv ==
    /\ figs = 0
    /\ dirs = {}
    /\ files = << >>
    /\ last = Call("init", "ok")

InitPeriod ==
    /\ pargs = NoArgs
    /\ ps = Failure("none")
    /\ peak = NotEvaluated

\* a data file without images
EmptyFile == [image_id |-> <<>>, tmid |-> <<>>,
              flux |-> [r \in Rows |-> <<>>],
              fluxerr |-> [r \in Rows |-> <<>>]]

InitReaderIdle ==
    /\ fitsfile = EmptyFile
    /\ headers = [id \in ImageIds |-> None]
    /\ fetched = NoFetch
    /\ data = NoData
    /\ plotted = NoPlot

\* the interactive session: the explorer's methods in any order
Init == InitExplorer /\ InitEnv /\ InitPeriod /\ InitReaderIdle
Next ==
    \/ Keys
    \/ DoSetObject
    \/ NObjects
    \/ Plot
    \/ PlotAll
    \/ SavefigIndex
    \/ DoSavefig
Spec == Init /\ [][Next]_vars

\* the period search, before and after an object is selected
SetObjectOnce ==
    /\ sdata = None
    /\ SetSelf(SetObject(Self, Some("EB"), 0, TRUE).self)
    /\ last' = [Call("set_object", "ok") EXCEPT !.cls = Some("EB"),
                                               !.count = Some(2)]
    /\ UNCHANGED <<figs, dirs, files, periodVars, readerVars>>
NextPeriod == SetObjectOnce \/ FindPeriod \/ EvalPeakPeriod
SpecPeriod == Init /\ [][NextPeriod]_vars

\* the airmass lookup on any headers table
InitFetch ==
    /\ InitExplorer /\ InitEnv /\ InitPeriod
    /\ fitsfile = EmptyFile
    /\ headers \in HeaderTables
    /\ fetched = NoFetch
    /\ data = NoData
    /\ plotted = NoPlot
NextFetch == DoFetchAirmass
SpecFetch == InitFetch /\ [][NextFetch]_vars

\* reading and folding a light curve, on any data file and headers table
InitReader ==
    /\ InitExplorer /\ InitEnv /\ InitPeriod
    /\ fitsfile \in FitsFiles
    /\ headers \in HeaderTables
    /\ fetched = NoFetch
    /\ data = NoData
    /\ plotted = NoPlot
NextReader == DoExtractData \/ DoPlotPhase
SpecReader == InitReader /\ [][NextReader]_vars

(***************************************************************************)
(* Properties.                                                             *)
(***************************************************************************)

\* Some candidate period of the grid is <= 0, said of the arguments alone.
SomePeriodNotPositive(a) ==
    \/ a.n >= 2 /\ (a.min <= 0 \/ a.max <= 0)
    \/ a.n = 1 /\ a.min <= 0

\* C1 (as amended): on loaded data the period search fails with the
\* assertion exactly when some candidate period is <= 0 (for n >= 2: when
\* min_period <= 0 or max_period <= 0; for n = 1: when min_period <= 0;
\* never for n = 0), and otherwise returns a PowerSeries of n periods and
\* n powers, also when max_period <= min_period.
C1_FailsIffSomePeriodNotPositive ==
    last.op = "find_period" =>
        /\ sdata = None => ps.status = "AttributeError"
        /\ sdata # None =>
            /\ ps.status \in {"ok", "AssertionError"}
            /\ ps.status = "AssertionError" <=> SomePeriodNotPositive(pargs)
            /\ ps.status = "ok" =>
                /\ Len(ps.period) = pargs.n
                /\ Len(ps.power) = pargs.n

\* C1 witness: the search failed though min_period > 0 (max_period <= 0).
C1_Witness ==
    /\ last.op = "find_period"
    /\ ps.status = "AssertionError"
    /\ pargs.min > 0

\* C1 as stated: the search fails whenever min_period <= 0 or
\* max_period <= min_period.
C1_Original ==
    (ps.status # "none" /\ (pargs.min <= 0 \/ pargs.max <= pargs.min))
        => ps.status # "ok"

\* the indices of maximal power of a series without NaN
MaxIndices(s) ==
    {k \in DOMAIN s.power :
        \A j \in DOMAIN s.power : s.power[j][1] <= s.power[k][1]}

\* C2 (as amended): peak_period returns a value exactly when the series is
\* not empty and holds no NaN; the value is the period at the first index
\* (in grid order) of maximal power; it is the smallest period of maximal
\* power when min_period <= max_period, the largest when the grid descends.
C2_PeakIsFirstMaximum ==
    peak.status # "none" =>
        /\ peak.status = "ok" <=>
              (Len(ps.power) > 0 /\ \A k \in DOMAIN ps.power : ps.power[k] # None)
        /\ peak.status = "ok" =>
              \E k \in MaxIndices(ps) :
                  /\ peak.value = Some(ps.period[k])
                  /\ \A j \in MaxIndices(ps) : k <= j
                  /\ pargs.min <= pargs.max =>
                        \A j \in MaxIndices(ps) :
                            ~RatLess(ps.period[j], ps.period[k])
                  /\ pargs.max < pargs.min =>
                        \A j \in MaxIndices(ps) :
                            ~RatLess(ps.period[k], ps.period[j])

\* C2 witness: two candidates of a descending grid tie for the maximum.
C2_Witness ==
    /\ peak.status = "ok"
    /\ pargs.max < pargs.min
    /\ Cardinality(MaxIndices(ps)) >= 2

\* C2 as stated: the peak is the smallest period of maximal power.
C2_Original ==
    peak.status = "ok" =>
        \A j \in MaxIndices(ps) : ~RatLess(ps.period[j], peak.value[1])

\* C3: a savefig call made with no open figure, or with name or obclass
\* None, ends in RuntimeError and leaves files and directories as they
\* were; a savefig call that gets to the file-writing step was made with a
\* figure open and name and obclass set.
C3_SavefigGuards ==
    [][ last'.op = "savefig" =>
          /\ (figs = 0 \/ name = None \/ obclass = None) =>
                /\ last'.status = "RuntimeError"
                /\ files' = files
                /\ dirs' = dirs
          /\ (last'.status = "ok" \/ files' # files \/ dirs' # dirs) =>
                (figs > 0 /\ name # None /\ obclass # None) ]_vars

\* C3 witness: savefig refused with an object selected and no figure open.
C3_Witness ==
    /\ last.op = "savefig"
    /\ last.status = "RuntimeError"
    /\ name # None /\ obclass # None
    /\ figs = 0

\* the replies that are 'y', 'ye' or 'yes' up to case and outer whitespace
AcceptedAnswers == { <<"y">>, <<"Y", "E">>, <<" ", "Y", "e", "s", "\n">> }

SaveOps == {"savefig", "savefig_index"}

\* C7: a save targets <outdir>/<class>/<name>, whose directory exists
\* afterwards; a missing file is written without a prompt; an existing
\* file changes only in a save to its path for which the user was prompted
\* and answered y, ye or yes; on any other answer no file changes.
C7_NoOverwriteUnasked ==
    [][ /\ \A q \in DOMAIN files :
              /\ q \in DOMAIN files'
              /\ files'[q] # files[q] =>
                    /\ last'.op \in SaveOps
                    /\ last'.path = q
                    /\ last'.prompted
                    /\ last'.answer \in AcceptedAnswers
        /\ (last'.op \in SaveOps /\ last'.status = "ok") =>
              /\ last'.op = "savefig" =>
                    \E outdir \in OutDirs :
                        last'.path = <<outdir, obclass[1], name[1] \o ".png">>
              /\ <<last'.path[1], last'.path[2]>> \in dirs'
              /\ last'.prompted <=> last'.path \in DOMAIN files
              /\ last'.path \notin DOMAIN files =>
                    /\ last'.path \in DOMAIN files'
                    /\ \A q \in DOMAIN files' : q # last'.path => q \in DOMAIN files
              /\ (last'.prompted /\ last'.answer \notin AcceptedAnswers) =>
                    files' = files
              /\ (last'.prompted /\ last'.answer \in AcceptedAnswers) =>
                    files'[last'.path] # files[last'.path] ]_vars

\* C7 witness: an existing figure file was overwritten after a yes.
C7_Witness ==
    /\ last.op = "savefig"
    /\ last.prompted
    /\ last.answer = <<" ", "Y", "e", "s", "\n">>
    /\ files[last.path] = 2

\* the observations of row r of file f, as the code reads them
SameObservation(f, hdr, r, j, d, k) ==
    /\ d.mjd[k] = f.tmid[j]
    /\ d.flux[k] = f.flux[r][j]
    /\ d.fluxerr[k] = f.fluxerr[r][j]
    /\ hdr[f.image_id[j]] = Some(d.airmass[k])

NonDecreasing(s) == \A a, b \in DOMAIN s : a < b => ~RatLess(s[b], s[a])

AlignedExtract ==
    data.fd.status = "ok" =>
        LET n == Len(fitsfile.tmid)
            d == data.fd
        IN  /\ Len(d.mjd) = n /\ Len(d.flux) = n
            /\ Len(d.fluxerr) = n /\ Len(d.airmass) = n
            /\ \A a, b \in 1..n : a < b => d.mjd[a] <= d.mjd[b]
            /\ \E pi \in Perms(n) :
                  \A k \in 1..n :
                      SameObservation(fitsfile, headers, data.index, pi[k], d, k)

AlignedFold ==
    plotted.fd.status = "ok" =>
        LET m == Len(data.fd.mjd)
            d == data.fd
            nd == plotted.fd
            copies == IF plotted.double_plot THEN {0, 1} ELSE {0}
        IN  /\ Len(nd.mjd) = m * Cardinality(copies)
            /\ Len(nd.flux) = m * Cardinality(copies)
            /\ Len(nd.fluxerr) = m * Cardinality(copies)
            /\ Len(nd.airmass) = m * Cardinality(copies)
            /\ NonDecreasing(nd.mjd)
            /\ \E sigma \in Perms(m) :
                  \A k \in 1..m, c \in copies :
                      LET ph == Phase(d.mjd[sigma[k]], plotted.epoch,
                                      plotted.period)
                      IN  /\ nd.mjd[c * m + k] = Rat(ph.num + c * ph.den, ph.den)
                          /\ nd.flux[c * m + k] = d.flux[sigma[k]]
                          /\ nd.fluxerr[c * m + k] = d.fluxerr[sigma[k]]
                          /\ nd.airmass[c * m + k] = d.airmass[sigma[k]]

\* C4: what extract_data returns is the file's observations of the chosen
\* row in one order, by non-decreasing time: position k holds the time,
\* flux, flux error and airmass (that of the image's identifier) of one and
\* the same observation.  What plot_phase plots is the observations of the
\* data in one order, by non-decreasing phase, and with double_plot the
\* same again one phase later.
C4_ParallelSequences == AlignedExtract /\ AlignedFold

\* C4 witness: both sorts moved observations, and the plot was doubled.
C4_Witness ==
    /\ plotted.fd.status = "ok"
    /\ plotted.double_plot
    /\ Len(data.fd.mjd) = 2
    /\ data.fd.mjd[1] < data.fd.mjd[2]
    /\ data.fd.flux # fitsfile.flux[data.index]
    /\ SubSeq(plotted.fd.flux, 1, 2) # data.fd.flux
    /\ data.fd.airmass[1] # data.fd.airmass[2]

C5_MissingClassOrIndexFails ==
    LET absent == /\ last.cls \notin DOMAIN Catalogue
                  /\ ~(last.op = "nobjects" /\ last.cls = None)
        badIndex == /\ last.op = "set_object"
                    /\ last.cls \in DOMAIN Catalogue
                    /\ ~ValidIndex(Catalogue[last.cls], last.index)
    IN  (last.op \in {"set_object", "nobjects", "plot_all"}
            /\ (absent \/ badIndex))
        => last.status # "ok"

\* C9 as stated: the selection fields and the cached light curve describe
\* one object of the catalogue, or nothing is selected.
C9_SelectionDescribesOneObject ==
    \/ /\ name = None /\ i = None /\ vmag = None /\ obclass = None
       /\ sdata = None
    \/ \E c \in DOMAIN Catalogue :
          \E k \in DOMAIN Catalogue[c] :
              /\ name = Some(Catalogue[c][k][1])
              /\ i = Some(Catalogue[c][k][2])
              /\ vmag = Catalogue[c][k][3]
              /\ obclass = c
              /\ sdata = i

\* C10 as stated: the mapping stays what the constructor built.
C10_MappingUnchanged == mapping = Catalogue
====
